---- MODULE Spec2Model ----
(***************************************************************************)
(* Model of the forum's authentication state machine (routes/auth.js):     *)
(* login with brute-force lockout, the login attempt ledger, and the       *)
(* password reset token lifecycle, over the SQLite tables of database.js   *)
(* and the express-session store configured in server.js.                  *)
(*                                                                         *)
(* Every async route handler is split at its await: the part before the    *)
(* await is one action, the part after it another, so that other requests  *)
(* interleave exactly where the event loop lets them.                      *)
(***************************************************************************)
EXTENDS Integers, Sequences, FiniteSets, TLC

(***************************************************************************)
(* Bounds of the model.                                                    *)
(***************************************************************************)
TicksPerMinute == 2       \* clock resolution: ticks in a minute
MaxAdvances == 2          \* how many times the clock moves
MaxLogins == 7            \* POST /login requests submitted, login on its own
MaxRequests == 3          \* requests submitted to the reset flow, logins included
MaxChatSteps == 4         \* chat events and profile updates handled

(***************************************************************************)
(* Program constants.                                                      *)
(***************************************************************************)
LockThreshold == 5        \* failed attempts that lock the account
LockoutMinutes == 15      \* Date.now() + 15 * 60 * 1000
ResetTokenMinutes == 60   \* Date.now() + 3600000
MinPasswordLength == 8    \* password.length < 8
MinutesPerDay == 1440     \* calendar day of the date part of a timestamp

LockoutTicks == LockoutMinutes * TicksPerMinute
ResetTokenTicks == ResetTokenMinutes * TicksPerMinute
TicksPerDay == MinutesPerDay * TicksPerMinute

NULL == [null |-> TRUE]

(***************************************************************************)
(* Timestamps.  The clock `now` counts ticks.  Date.toISOString() writes   *)
(* "YYYY-MM-DDTHH:MM:SS.sssZ": a date, the separator "T" and a time of     *)
(* day; new Date(text) parses it back.                                     *)
(***************************************************************************)
ToISOString(t) ==
    [date |-> t \div TicksPerDay, sep |-> "T", time |-> t % TicksPerDay]

DateParse(text) == text.date * TicksPerDay + text.time

\* a division that rounds down
FloorDiv(a, b) == a \div b

CeilDiv(a, b) == (a + b - 1) \div b

(***************************************************************************)
(* SQLite's datetime('now') writes "YYYY-MM-DD HH:MM:SS": a date, a space  *)
(* and a time of day.  expires_at holds the text toISOString() wrote, and  *)
(* SQLite compares two texts byte by byte: first the dates, then the       *)
(* separator ("T" is 0x54, the space 0x20), then the times of day.         *)
(***************************************************************************)
SqliteDatetime(t) ==
    [date |-> t \div TicksPerDay, sep |-> " ", time |-> t % TicksPerDay]

ByteOf(sep) == IF sep = "T" THEN 84 ELSE 32

TextGreater(a, b) ==
    \/ a.date > b.date
    \/ /\ a.date = b.date
       /\ \/ ByteOf(a.sep) > ByteOf(b.sep)
          \/ /\ ByteOf(a.sep) = ByteOf(b.sep)
             /\ a.time > b.time

(***************************************************************************)
(* Passwords are described by what the handlers look at: their length and  *)
(* the character classes they contain.  `text` tells two passwords apart.  *)
(***************************************************************************)
PwAlice == [text |-> "Alice#2024", length |-> 10, upper |-> TRUE,
            lower |-> TRUE, digit |-> TRUE, special |-> TRUE]
PwBob   == [text |-> "B0b!secret", length |-> 10, upper |-> TRUE,
            lower |-> TRUE, digit |-> TRUE, special |-> TRUE]
PwEmpty == [text |-> "", length |-> 0, upper |-> FALSE,
            lower |-> FALSE, digit |-> FALSE, special |-> FALSE]
PwNew   == [text |-> "N3w-Passw0rd", length |-> 12, upper |-> TRUE,
            lower |-> TRUE, digit |-> TRUE, special |-> TRUE]
PwWeak  == [text |-> "password", length |-> 8, upper |-> FALSE,
            lower |-> TRUE, digit |-> FALSE, special |-> FALSE]
PwShort == [text |-> "Ab1!", length |-> 4, upper |-> TRUE,
            lower |-> TRUE, digit |-> TRUE, special |-> TRUE]

\* validatePassword(p).errors: the rules of the password policy p does not meet
validatePassword(p) ==
    {rule \in {"length", "uppercase", "lowercase", "digit", "special"} :
        \/ rule = "length" /\ p.length < MinPasswordLength
        \/ rule = "uppercase" /\ ~p.upper
        \/ rule = "lowercase" /\ ~p.lower
        \/ rule = "digit" /\ ~p.digit
        \/ rule = "special" /\ ~p.special}

\* bcrypt: hashPassword(p) yields a hash that comparePassword accepts for p only
hashPassword(p) == [bcrypt |-> p.text]
comparePassword(p, hash) == hash.bcrypt = p.text

(***************************************************************************)
(* The users table.  Rows are created by registration only; the model      *)
(* starts with two registered users.                                       *)
(***************************************************************************)
UserIds == {1, 2}
UsernameOf(id) == IF id = 1 THEN "alice" ELSE "bob"
EmailOf(id) == IF id = 1 THEN "alice@example.org" ELSE "bob@example.org"
InitialPassword(id) == IF id = 1 THEN PwAlice ELSE PwBob

\* request bodies of POST /login: a missing field, an unknown username,
\* alice's name with the right and with a wrong password, and the name of a
\* second user with a wrong password
LoginBodies ==
    {<<"", PwAlice>>, <<"mallory", PwAlice>>,
     <<"alice", PwAlice>>, <<"alice", PwBob>>,
     <<"bob", PwAlice>>}

\* request bodies of POST /forgot-password: no email, each user's email and an
\* email no user has
ForgotEmails ==
    {"", "alice@example.org", "bob@example.org", "nobody@example.org"}

\* password and confirmPassword of POST /reset-password
ResetPasswords ==
    {<<PwNew, PwNew>>, <<PwWeak, PwWeak>>, <<PwShort, PwShort>>,
     <<PwNew, PwWeak>>, <<PwEmpty, PwEmpty>>}

\* browsers, each with its own session cookie and one request at a time
Clients == {1, 2}

VARIABLES
    now,             \* the wall clock, in ticks
    advances,        \* how many times the clock has moved
    users,           \* users table: id -> row
    login_attempts,  \* login_attempts table: row count and the newest row
    sessionStore,    \* express-session store: client cookie -> session data
    login,           \* POST /login in flight, per client
    response,        \* the response sent last, with the request it answers
    requests,        \* HTTP requests submitted so far
    streak,          \* history: per user, the failed attempts made one after
                     \* the other since the user was ACTIVE with a zero counter
                     \* (run, at), and all the failed credential checks since
                     \* the counter was last cleared (failed)
    password_reset_tokens,  \* password_reset_tokens table: a set of rows
    sessions,        \* sessions table of the database: a set of rows
    forgot,          \* POST /forgot-password in flight, per client
    reset,           \* POST /reset-password in flight, per client
    issued,          \* reset tokens generated so far
    changes,         \* history: per token, the password changes made with it
    ledgerDown,      \* environment: INSERTs into login_attempts fail for now
    profiles,        \* users table, profile columns: id -> row
    sockets,         \* Socket.IO connections: id -> status and socket.userData,
                     \* with history: messages dropped, repeated closes,
                     \* errors caught and the rows stored at the latest one
    mainChat,        \* the sockets that are in room 'main-chat'
    chat_messages,   \* chat_messages table: the rows in order of insertion
    inbox,           \* per socket, the events emitted to it, in order
    chatSteps        \* chat events and profile updates handled so far

loginVars == <<login, streak, login_attempts>>
resetVars == <<password_reset_tokens, sessions, forgot, reset, issued,
               changes>>

chatVars == <<profiles, sockets, mainChat, chat_messages, inbox, chatSteps>>

vars == <<now, advances, users, login_attempts, sessionStore, login,
          response, requests, streak, password_reset_tokens, sessions,
          forgot, reset, issued, changes, ledgerDown, profiles, sockets,
          mainChat, chat_messages, inbox, chatSteps>>

\* crypto.randomBytes(32): 256 random bits, a value no earlier token has
Tokens == 1..MaxRequests
NoSuchToken == 0

\* SELECT * FROM users WHERE username = ?
FindByUsername(username) ==
    {id \in UserIds : UsernameOf(id) = username}

\* users.display_name of the registered users (NOT NULL, and registration
\* turns an empty displayName down)
DisplayNameOf(id) == IF id = 1 THEN "Alice A." ELSE "Bob B."

\* Socket.IO connections
Sockets == {1, 2, 3}

Idle == [pc |-> "idle"]
NoResponse == [route |-> "none", kind |-> "none"]
Broken == 0 - 1

Init ==
    /\ now = TicksPerDay - (LockoutMinutes + 60) * TicksPerMinute
    /\ advances = 0
    /\ users = [id \in UserIds |->
                  [password_hash |-> hashPassword(InitialPassword(id)),
                   failed_login_attempts |-> 0,
                   is_locked |-> FALSE,
                   lockout_until |-> NULL]]
    /\ login_attempts = [count |-> 0, last |-> NULL]
    /\ sessionStore = [c \in Clients |-> NULL]
    /\ login = [c \in Clients |-> Idle]
    /\ response = NoResponse
    /\ requests = 0
    /\ streak = [id \in UserIds |->
                    [run |-> Broken, at |-> 0, failed |-> 0]]
    /\ password_reset_tokens = {}
    /\ sessions = {}
    /\ forgot = [c \in Clients |-> Idle]
    /\ reset = [c \in Clients |-> Idle]
    /\ issued = 0
    /\ changes = [t \in Tokens |-> 0]
    /\ ledgerDown = FALSE
    /\ profiles = [id \in UserIds |->
                     [username |-> UsernameOf(id),
                      display_name |-> DisplayNameOf(id),
                      profile_color |-> "#000000",
                      profile_avatar |-> NULL]]
    /\ sockets = [s \in Sockets |->
                    [status |-> "new", userData |-> NULL, dropped |-> 0,
                     closes |-> 0, caught |-> 0, caughtAt |-> 0]]
    /\ mainChat = {}
    /\ chat_messages = <<>>
    /\ inbox = [s \in Sockets |-> <<>>]
    /\ chatSteps = 0

(***************************************************************************)
(* logLoginAttempt: one INSERT into login_attempts.  The table is          *)
(* append-only and no handler ever reads it, so it is kept as the number   *)
(* of rows inserted and the newest row.  When the INSERT throws            *)
(* (ledgerDown) the table stays as it is.                                  *)
(***************************************************************************)
logLoginAttempt(ledger, username, success, failureReason) ==
    IF ledgerDown THEN ledger
    ELSE [count |-> ledger.count + 1,
          last |-> [username |-> username, success |-> success,
                    failure_reason |-> failureReason]]

\* a logLoginAttempt without its try/catch: the error of the INSERT reaches
\* the caller
logLoginAttemptUncaught(down) == down

\* does a call of logLoginAttempt throw: its catch block logs the error of
\* the INSERT to the console and returns
logLoginAttemptThrows(down) == FALSE

(***************************************************************************)
(* handleFailedLogin: the users table and the ledger reason after a failed *)
(* credential check for userId at time t.                                  *)
(***************************************************************************)
\* a threshold test that is off by one: the lock comes with the sixth failure
ShouldLockAfterSixth(count) == count > LockThreshold

\* a threshold test that never locks
ShouldLockNever(count) == FALSE

ShouldLock(count) == count >= LockThreshold

\* a lock that ends the moment it is set
LockoutUntilNow(t) == ToISOString(t)

LockoutUntil(t) == ToISOString(t + LockoutTicks)

\* a counter that stops at the threshold
handleFailedLoginCapped(tbl, userId, t) ==
    IF ShouldLock(tbl[userId].failed_login_attempts)
    THEN tbl
    ELSE [tbl EXCEPT ![userId].failed_login_attempts = @ + 1]

handleFailedLoginUsers(tbl, userId, t) ==
    LET incremented ==
            [tbl EXCEPT ![userId].failed_login_attempts = @ + 1]
    IN  IF ShouldLock(incremented[userId].failed_login_attempts)
        THEN [incremented EXCEPT ![userId].is_locked = TRUE,
                                 ![userId].lockout_until = LockoutUntil(t)]
        ELSE incremented

handleFailedLoginReason(tbl, userId) ==
    IF ShouldLock(tbl[userId].failed_login_attempts + 1)
    THEN "account_locked_after_attempts"
    ELSE "invalid_password"

(***************************************************************************)
(* POST /login, up to the await of comparePassword.                        *)
(***************************************************************************)
\* a lock check with the comparison of the clock turned around
LockInForceReversed(row, t) ==
    /\ row.is_locked
    /\ row.lockout_until # NULL
    /\ t > DateParse(row.lockout_until)

LockInForce(row, t) ==
    /\ row.is_locked
    /\ row.lockout_until # NULL
    /\ t < DateParse(row.lockout_until)

LockExpired(row, t) ==
    /\ row.is_locked
    /\ row.lockout_until # NULL
    /\ ~(t < DateParse(row.lockout_until))

RemainingMinutes(row, t) ==
    CeilDiv(DateParse(row.lockout_until) - t, TicksPerMinute)

\* an unlock that clears the lock and keeps the counter
UnlockRowKeepingCounter(row) ==
    [row EXCEPT !.is_locked = FALSE, !.lockout_until = NULL]

UnlockRow(row) ==
    [row EXCEPT !.is_locked = FALSE, !.lockout_until = NULL,
                !.failed_login_attempts = 0]

Request(username, password) ==
    [username |-> username, password |-> password]

\* res.redirect(...) of POST /login
LoginResponse(c, username, password, kind) ==
    [route |-> "POST /login", to |-> c,
     request |-> Request(username, password), kind |-> kind]

\* the redirects of POST /login: status 302 and the Location they name
LoginPage(error) ==
    [status |-> 302, path |-> "/api/auth/login", error |-> error]

MissingCredentialsRedirect ==
    LoginPage(<<"Username and password are required">>)

\* a redirect that tells the caller the username is not registered
UserNotFoundRevealed == LoginPage(<<"No account with that username">>)

UserNotFoundRedirect == LoginPage(<<"Invalid username or password">>)

AccountLockedRedirect(remainingMinutes) ==
    LoginPage(<<"Account is locked. Try again in ", remainingMinutes,
                " minutes.">>)

WrongPasswordRedirect == LoginPage(<<"Invalid username or password">>)

LoginSuccessRedirect(display_name, username) ==
    [status |-> 302, path |-> "/public/login-success.html",
     username |-> IF display_name # "" THEN display_name ELSE username]

\* the catch block of POST /login reads `username`, a const of the try block
\* that is out of scope there: the ReferenceError leaves the handler before
\* logLoginAttempt and res.redirect are called, and the request gets no reply
LoginCatch(c, username, password) ==
    LoginResponse(c, username, password, "NoResponse")

\* the reply of a branch that calls logLoginAttempt first and redirects then
Replied(c, username, password, kind, redirect) ==
    IF logLoginAttemptThrows(ledgerDown)
    THEN LoginCatch(c, username, password)
    ELSE LoginResponse(c, username, password, kind)
         @@ [redirect |-> redirect]

\* history kept with the response of a completed credential check: how the
\* attempt found the user on entry, and the counter its completion found
Attempt(r) ==
    [attempt |-> [id |-> r.id, entry |-> r.entry, correct |-> r.correct,
                  alone |-> r.alone,
                  before |-> users[r.id].failed_login_attempts]]

\* requests of other clients for user id that are suspended in comparePassword
InFlightFor(id, c) ==
    {d \in Clients \ {c} : login[d].pc = "compare" /\ login[d].id = id}

\* client c has no request in flight
Free(c) ==
    /\ login[c].pc = "idle"
    /\ forgot[c].pc = "idle"
    /\ reset[c].pc = "idle"

LoginStartWithin(limit, c, username, password) ==
    /\ Free(c)
    /\ requests < limit
    /\ requests' = requests + 1
    /\ UNCHANGED <<now, advances, sessionStore, resetVars, ledgerDown,
                   chatVars>>
    /\ IF username = "" \/ password = PwEmpty
       THEN /\ login_attempts' = logLoginAttempt(login_attempts, username,
                                                 FALSE, "missing_credentials")
            /\ response' = Replied(c, username, password,
                                   "MissingCredentials",
                                   MissingCredentialsRedirect)
            /\ UNCHANGED <<users, login, streak>>
       ELSE IF FindByUsername(username) = {}
       THEN /\ login_attempts' = logLoginAttempt(login_attempts, username,
                                                 FALSE, "user_not_found")
            /\ response' = Replied(c, username, password, "UserNotFound",
                                   UserNotFoundRedirect)
            /\ UNCHANGED <<users, login, streak>>
       ELSE LET id == CHOOSE i \in FindByUsername(username) : TRUE
                user == users[id]
            IN  IF LockInForce(user, now)
                THEN /\ login_attempts' =
                            logLoginAttempt(login_attempts, username,
                                            FALSE, "account_locked")
                     /\ response' =
                            Replied(c, username, password, "AccountLocked",
                                    AccountLockedRedirect(
                                        RemainingMinutes(user, now)))
                            @@ [remainingMinutes |->
                                    RemainingMinutes(user, now)]
                     /\ UNCHANGED <<users, login, streak>>
                ELSE /\ users' = IF LockExpired(user, now)
                                 THEN [users EXCEPT ![id] = UnlockRow(user)]
                                 ELSE users
                     /\ login' = [d \in Clients |->
                            IF d = c
                            THEN [pc |-> "compare", username |-> username,
                                  password |-> password, id |-> id,
                                  password_hash |-> user.password_hash,
                                  display_name |->
                                      profiles[id].display_name,
                                  \* history fields
                                  entry |-> IF LockExpired(user, now)
                                            THEN "expired" ELSE "active",
                                  correct |-> (user.password_hash =
                                               hashPassword(password)),
                                  alone |-> (InFlightFor(id, c) = {})]
                            ELSE IF d \in InFlightFor(id, c)
                            THEN [login[d] EXCEPT !.alone = FALSE]
                            ELSE login[d]]
                     /\ streak' = [streak EXCEPT ![id] =
                            [failed |-> IF LockExpired(user, now)
                                        THEN 0 ELSE @.failed] @@
                            (IF InFlightFor(id, c) # {}
                             THEN [run |-> Broken, at |-> 0]
                             ELSE IF /\ users'[id].failed_login_attempts = 0
                                     /\ ~users'[id].is_locked
                                  THEN [run |-> 0, at |-> 0]
                                  ELSE [run |-> @.run, at |-> @.at])]
                     /\ UNCHANGED <<login_attempts, response>>

LoginStart(c, username, password) ==
    LoginStartWithin(MaxLogins, c, username, password)

(***************************************************************************)
(* POST /login, after comparePassword has resolved.                        *)
(***************************************************************************)
\* a success that clears the lock and keeps the counter
SuccessRowKeepingCounter(row) ==
    [row EXCEPT !.is_locked = FALSE, !.lockout_until = NULL]

SuccessRow(row) ==
    [row EXCEPT !.failed_login_attempts = 0, !.is_locked = FALSE,
                !.lockout_until = NULL]

\* a session bound to the other user
SessionForOther(id, username) ==
    [userId |-> 3 - id, username |-> username, isLoggedIn |-> TRUE]

\* req.session.userId = user.id; ...
SessionFor(id, username) ==
    [userId |-> id, username |-> username, isLoggedIn |-> TRUE]

LoginResume(c) ==
    /\ login[c].pc = "compare"
    /\ LET r == login[c]
       IN  IF ~comparePassword(r.password, r.password_hash)
           THEN /\ users' = handleFailedLoginUsers(users, r.id, now)
                /\ login_attempts' =
                       logLoginAttempt(login_attempts, r.username, FALSE,
                                       handleFailedLoginReason(users, r.id))
                /\ response' = LoginResponse(c, r.username, r.password,
                                             "InvalidCredentials")
                                @@ [redirect |-> WrongPasswordRedirect]
                                @@ Attempt(r)
                /\ streak' = [streak EXCEPT ![r.id] =
                       [failed |-> @.failed + 1] @@
                       (IF @.run = Broken THEN [run |-> @.run, at |-> @.at]
                        ELSE [run |-> @.run + 1,
                              at |-> IF @.run + 1 = LockThreshold
                                     THEN now ELSE 0])]
                /\ UNCHANGED sessionStore
           ELSE /\ users' = [users EXCEPT ![r.id] = SuccessRow(@)]
                /\ login_attempts' =
                       logLoginAttempt(login_attempts, r.username, TRUE,
                                       "success")
                /\ sessionStore' =
                       IF logLoginAttemptThrows(ledgerDown) THEN sessionStore
                       ELSE [sessionStore EXCEPT ![c] =
                                SessionFor(r.id, r.username)]
                /\ response' = Replied(c, r.username, r.password,
                                       "LoginSuccess",
                                       LoginSuccessRedirect(r.display_name,
                                                            r.username))
                                @@ Attempt(r)
                /\ streak' = [streak EXCEPT ![r.id] =
                                 [run |-> Broken, at |-> 0, failed |-> 0]]
    /\ login' = [login EXCEPT ![c] = Idle]
    /\ UNCHANGED <<now, advances, requests, resetVars, ledgerDown, chatVars>>

(***************************************************************************)
(* POST /login, when a statement of the try block throws: here the awaited *)
(* comparePassword rejects.  Control passes to the catch block.            *)
(***************************************************************************)
LoginReject(c) ==
    /\ login[c].pc = "compare"
    /\ LET r == login[c]
       IN  /\ response' = LoginCatch(c, r.username, r.password)
           /\ streak' = [streak EXCEPT ![r.id] =
                            [run |-> Broken, at |-> 0, failed |-> @.failed]]
    /\ login' = [login EXCEPT ![c] = Idle]
    /\ UNCHANGED <<now, advances, users, login_attempts, sessionStore,
                   requests, resetVars, ledgerDown, chatVars>>

(***************************************************************************)
(* POST /forgot-password, up to the await of sendPasswordResetEmail.       *)
(***************************************************************************)
\* SELECT * FROM users WHERE email = ?
FindByEmail(email) == {id \in UserIds : EmailOf(id) = email}

\* INSERT OR REPLACE: the new row replaces the rows it conflicts with on a
\* UNIQUE column; of password_reset_tokens that is the token (and the
\* autoincremented id, which a new row never shares)
InsertOrReplace(tbl, row) ==
    {r \in tbl : r.token # row.token} \cup {row}

ExpirationTime(t) == ToISOString(t + ResetTokenTicks)

\* res.status(400).json(...) for a request without an email
EmailRequired ==
    [status |-> 400, success |-> FALSE, message |-> "Email is required"]

\* a reply that tells the caller no user has the email
NoSuchAccount ==
    [status |-> 404, success |-> FALSE,
     message |-> "No account with that email exists."]

\* res.json(...) for an email no user has
GenericSuccess ==
    [status |-> 200, success |-> TRUE,
     message |-> "If an account with that email exists, a password reset link has been sent."]

\* res.json(...) after the reset email was sent
EmailSentSuccess ==
    [status |-> 200, success |-> TRUE,
     message |-> "If an account with that email exists, a password reset link has been sent."]

\* a dispatch failure answered like a success
EmailSendErrorHidden ==
    [status |-> 200, success |-> TRUE,
     message |-> "If an account with that email exists, a password reset link has been sent."]

\* res.status(500).json(...) after sendPasswordResetEmail failed
EmailSendError ==
    [status |-> 500, success |-> FALSE,
     message |-> "Error sending reset email. Please try again later."]

\* a reply of POST /forgot-password: status and JSON body, with the branch
\* that sent it
ForgotResponse(c, kind, json) ==
    [route |-> "POST /forgot-password", to |-> c, kind |-> kind,
     body |-> json]

ForgotStart(c, email) ==
    /\ Free(c)
    /\ requests < MaxRequests
    /\ requests' = requests + 1
    /\ UNCHANGED <<now, advances, users, sessionStore, loginVars, sessions,
                   reset, changes, ledgerDown, chatVars>>
    /\ IF email = ""
       THEN /\ response' = ForgotResponse(c, "EmailRequired", EmailRequired)
            /\ UNCHANGED <<password_reset_tokens, forgot, issued>>
       ELSE IF FindByEmail(email) = {}
       THEN /\ response' = ForgotResponse(c, "UnknownEmail", GenericSuccess)
            /\ UNCHANGED <<password_reset_tokens, forgot, issued>>
       ELSE LET id == CHOOSE i \in FindByEmail(email) : TRUE
                resetToken == issued + 1
            IN  /\ issued' = issued + 1
                /\ password_reset_tokens' =
                       InsertOrReplace(password_reset_tokens,
                           [user_id |-> id, token |-> resetToken,
                            expires_at |-> ExpirationTime(now)])
                /\ forgot' = [forgot EXCEPT ![c] =
                       [pc |-> "sending", token |-> resetToken]]
                /\ UNCHANGED response

(***************************************************************************)
(* POST /forgot-password, after sendPasswordResetEmail has resolved with   *)
(* {success: sent}.                                                        *)
(***************************************************************************)
ForgotResume(c, sent) ==
    /\ forgot[c].pc = "sending"
    /\ response' = (IF sent
                    THEN ForgotResponse(c, "EmailSent", EmailSentSuccess)
                    ELSE ForgotResponse(c, "EmailError", EmailSendError))
                   \* history: the token the request stored
                   @@ [token |-> forgot[c].token]
    /\ forgot' = [forgot EXCEPT ![c] = Idle]
    /\ UNCHANGED <<now, advances, users, sessionStore, loginVars, requests,
                   password_reset_tokens, sessions, reset, issued, changes,
                   ledgerDown, chatVars>>

(***************************************************************************)
(* Token lookup: WHERE token = ? AND expires_at > datetime('now').          *)
(***************************************************************************)
Unexpired(row, t) == TextGreater(row.expires_at, SqliteDatetime(t))

FindValidToken(tbl, token, t) ==
    {r \in tbl : r.token = token /\ Unexpired(r, t)}

FindToken(tbl, token) == {r \in tbl : r.token = token}

\* GET /reset-password: what the page shows for the token
validateToken(token) ==
    IF FindValidToken(password_reset_tokens, token, now) # {} THEN "valid"
    ELSE IF FindToken(password_reset_tokens, token) # {} THEN "expired"
    ELSE "not-found"

(***************************************************************************)
(* POST /reset-password, up to the await of hashPassword.                  *)
(***************************************************************************)
ResetResponse(c, token, kind) ==
    [route |-> "POST /reset-password", to |-> c, token |-> token,
     kind |-> kind]

\* the checks of the form fields made before the token is looked up
FormError(token, password, confirmPassword) ==
    IF password = PwEmpty \/ confirmPassword = PwEmpty
    THEN "AllFieldsRequired"
    ELSE IF password # confirmPassword THEN "PasswordsDoNotMatch"
    ELSE IF password.length < MinPasswordLength THEN "PasswordTooShort"
    ELSE "none"

ResetStart(c, token, password, confirmPassword) ==
    /\ Free(c)
    /\ requests < MaxRequests
    /\ requests' = requests + 1
    /\ UNCHANGED <<now, advances, users, sessionStore, loginVars,
                   password_reset_tokens, sessions, forgot, issued, changes,
                   ledgerDown, chatVars>>
    /\ IF FormError(token, password, confirmPassword) # "none"
       THEN /\ response' =
                   ResetResponse(c, token,
                       FormError(token, password, confirmPassword))
            /\ UNCHANGED reset
       ELSE IF FindValidToken(password_reset_tokens, token, now) = {}
       THEN /\ response' = ResetResponse(c, token, "TokenExpired")
            /\ UNCHANGED reset
       ELSE LET resetRecord ==
                    CHOOSE r \in FindValidToken(password_reset_tokens,
                                                token, now) : TRUE
            IN  /\ reset' = [reset EXCEPT ![c] =
                       [pc |-> "hashing", token |-> token,
                        password |-> password,
                        user_id |-> resetRecord.user_id,
                        \* history: was now >= expiresAt on submission
                        overdue |-> (now >= DateParse(
                                         resetRecord.expires_at))]]
                /\ UNCHANGED response

(***************************************************************************)
(* POST /reset-password, after hashPassword has resolved.                  *)
(***************************************************************************)
\* a reset that leaves the token in the table
KeepToken(tbl, token) == tbl

\* DELETE FROM password_reset_tokens WHERE token = ?
DeleteToken(tbl, token) == {r \in tbl : r.token # token}

\* DELETE FROM sessions WHERE user_id = ?
DeleteSessions(tbl, userId) == {r \in tbl : r.user_id # userId}

\* a reset that unlocks the account as well
ResetRowUnlocking(row, hashedPassword) ==
    [row EXCEPT !.password_hash = hashedPassword, !.is_locked = FALSE,
                !.lockout_until = NULL, !.failed_login_attempts = 0]

\* UPDATE users SET password_hash = ? WHERE id = ?
ResetRow(row, hashedPassword) ==
    [row EXCEPT !.password_hash = hashedPassword]

ResetResume(c) ==
    /\ reset[c].pc = "hashing"
    /\ LET r == reset[c]
       IN  /\ users' = [users EXCEPT ![r.user_id] =
                           ResetRow(@, hashPassword(r.password))]
           /\ password_reset_tokens' =
                  DeleteToken(password_reset_tokens, r.token)
           /\ sessions' = DeleteSessions(sessions, r.user_id)
           /\ response' = ResetResponse(c, r.token, "ResetSuccess")
           /\ changes' = [changes EXCEPT ![r.token] = @ + 1]
    /\ reset' = [reset EXCEPT ![c] = Idle]
    /\ UNCHANGED <<now, advances, sessionStore, loginVars, requests, forgot,
                   issued, ledgerDown, chatVars>>

(***************************************************************************)
(* The clock.                                                              *)
(***************************************************************************)
Advance(d) ==
    /\ advances < MaxAdvances
    /\ advances' = advances + 1
    /\ now' = now + d
    /\ UNCHANGED <<users, sessionStore, response, requests, loginVars,
                   resetVars, ledgerDown, chatVars>>

(***************************************************************************)
(* The login state machine on its own.                                     *)
(***************************************************************************)
LoginJumps == {1, LockoutTicks}

Next ==
    \/ \E c \in Clients, body \in LoginBodies :
           LoginStart(c, body[1], body[2])
    \/ \E c \in Clients : LoginResume(c)
    \/ \E d \in LoginJumps : Advance(d)

Spec == Init /\ [][Next]_vars

(***************************************************************************)
(* The password reset flow, beside a few logins that establish sessions.   *)
(***************************************************************************)
ResetLoginBodies == {<<"alice", PwAlice>>, <<"bob", PwBob>>}

\* the clock moves by the lifetime of a token: from 22:45 to 23:45, where a
\* token issued at the start has run out on the same day, and on to 00:45
ResetJumps == {ResetTokenTicks}

\* the tokens a client can submit: those generated so far and one that was
\* never generated
KnownTokens == {NoSuchToken} \cup (1..issued)

NextReset ==
    \/ \E c \in Clients, email \in ForgotEmails : ForgotStart(c, email)
    \/ \E c \in Clients, sent \in BOOLEAN : ForgotResume(c, sent)
    \/ \E c \in Clients, token \in KnownTokens, body \in ResetPasswords :
           ResetStart(c, token, body[1], body[2])
    \/ \E c \in Clients : ResetResume(c)
    \/ \E c \in Clients, body \in ResetLoginBodies :
           LoginStartWithin(MaxRequests, c, body[1], body[2])
    \/ \E c \in Clients : LoginResume(c)
    \/ \E d \in ResetJumps : Advance(d)

SpecReset == Init /\ [][NextReset]_vars

(***************************************************************************)
(* A password reset for alice beside wrong-password logins that lock her.  *)
(***************************************************************************)
NextResetLocked ==
    \/ \E c \in Clients : ForgotStart(c, "alice@example.org")
    \/ \E c \in Clients : ForgotResume(c, TRUE)
    \/ \E c \in Clients, token \in KnownTokens :
           ResetStart(c, token, PwNew, PwNew)
    \/ \E c \in Clients : ResetResume(c)
    \/ \E c \in Clients : LoginStartWithin(MaxLogins, c, "alice", PwBob)
    \/ \E c \in Clients : LoginResume(c)

SpecResetLocked == Init /\ [][NextResetLocked]_vars

(***************************************************************************)
(* The login route with its failures: INSERTs into login_attempts that     *)
(* throw, and an awaited comparePassword that rejects.                     *)
(***************************************************************************)
LedgerBodies ==
    {<<"", PwAlice>>, <<"mallory", PwAlice>>,
     <<"alice", PwAlice>>, <<"alice", PwBob>>}

\* the login_attempts table stops, or starts again, taking INSERTs
LedgerFault ==
    /\ ledgerDown' = ~ledgerDown
    /\ UNCHANGED <<now, advances, users, sessionStore, response, requests,
                   loginVars, resetVars, chatVars>>

NextLedger ==
    \/ \E c \in Clients, body \in LedgerBodies :
           LoginStartWithin(MaxLogins, c, body[1], body[2])
    \/ \E c \in Clients : LoginResume(c)
    \/ \E c \in Clients : LoginReject(c)
    \/ LedgerFault

SpecLedger == Init /\ [][NextLedger]_vars

(***************************************************************************)
(* The chat room: the Socket.IO handlers of server.js.  Socket.IO keeps    *)
(* the room: socket.join(room) adds the socket, a disconnect removes it    *)
(* before the 'disconnect' handler runs; socket.to(room).emit and          *)
(* socket.broadcast.to(room).emit reach every socket of the room but the   *)
(* socket itself, socket.emit reaches the socket itself.  Each handler is  *)
(* synchronous and runs to completion.                                     *)
(***************************************************************************)
\* userData of join-chat, as the page of a logged-in user sends it; the
\* second has no display name
ChatIdentities ==
    {[id |-> 1, username |-> "alice", displayName |-> "Alice A."],
     [id |-> 2, username |-> "bob", displayName |-> ""]}

\* a userId that is missing from the payload, and one no user has
NoUserId == 0
UnknownUserId == 9

\* data of chat-message
ChatPayloads ==
    {[message |-> "hi", userId |-> 1],
     [message |-> "", userId |-> 1], [message |-> "hi", userId |-> NoUserId],
     [message |-> "hi", userId |-> UnknownUserId]}

\* displayName of POST /update-display-name
DisplayNames == {"", "Ally"}

Event(name, payload) == [event |-> name, payload |-> payload]

\* a delivery that overtakes the events emitted before
EmitFirst(box, recipients, ev) ==
    [s \in Sockets |->
        IF s \in recipients THEN <<ev>> \o box[s] ELSE box[s]]

\* emit: the event is appended to what each recipient has received
EmitTo(box, recipients, ev) ==
    [s \in Sockets |->
        IF s \in recipients THEN Append(box[s], ev) ELSE box[s]]

\* socket.to('main-chat') and socket.broadcast.to('main-chat')
OthersIn(room, s) == room \ {s}

\* a || b of two strings
OrElse(a, b) == IF a # "" THEN a ELSE b

\* io.on('connection')
Connect(s) ==
    /\ sockets[s].status = "new"
    /\ sockets' = [sockets EXCEPT ![s].status = "open"]
    /\ UNCHANGED <<now, advances, users, sessionStore, response, requests,
                   loginVars, resetVars, ledgerDown, profiles, mainChat,
                   chat_messages, inbox, chatSteps>>

\* payload of user-joined and of user-left
Presence(userData) ==
    [username |-> OrElse(userData.displayName, userData.username),
     timestamp |-> ToISOString(now)]

\* a join that announces the socket to the whole room, itself included
JoinAnnouncedTo(room, s) == room

\* the sockets user-joined is emitted to: socket.to('main-chat')
JoinRecipients(room, s) == OthersIn(room, s)

\* socket.on('join-chat')
JoinChat(s, userData) ==
    /\ sockets[s].status = "open"
    /\ chatSteps < MaxChatSteps
    /\ chatSteps' = chatSteps + 1
    /\ sockets' = [sockets EXCEPT ![s].userData = userData]
    /\ mainChat' = mainChat \cup {s}
    /\ inbox' = EmitTo(inbox, JoinRecipients(mainChat', s),
                       Event("user-joined", Presence(userData)))
    /\ UNCHANGED <<now, advances, users, sessionStore, response, requests,
                   loginVars, resetVars, ledgerDown, profiles,
                   chat_messages>>

\* SELECT * FROM users WHERE id = ?
FindUserById(userId) == {id \in UserIds : id = userId}

\* a validation that lets an empty message through
NeverDropped(data) == FALSE

\* if (!message || !userId) return;
Dropped(data) == data.message = "" \/ data.userId = NoUserId

\* a row that loses the text
ChatRowWithoutText(rowid, data) ==
    [id |-> rowid, user_id |-> data.userId, message |-> ""]

\* INSERT INTO chat_messages (user_id, message, created_at)
ChatRow(rowid, data) ==
    [id |-> rowid, user_id |-> data.userId, message |-> data.message]

\* messageData
MessageData(rowid, data, user) ==
    [id |-> rowid,
     message |-> data.message,
     user_id |-> data.userId,
     display_name |-> OrElse(user.display_name, user.username),
     username |-> user.username,
     profile_color |-> OrElse(user.profile_color, "#000000"),
     profile_avatar |-> IF user.profile_avatar # NULL
                        THEN user.profile_avatar.emoji
                        ELSE "default avatar",
     created_at |-> ToISOString(now)]

\* a confirmation that carries the message text only
MessageSentBare(messageData) ==
    Event("message-sent", [message |-> messageData.message])

\* socket.emit('message-sent', messageData)
MessageSent(messageData) == Event("message-sent", messageData)

\* a broadcast that names the sender by username
NewMessageByUsername(messageData) ==
    Event("new-message",
          [messageData EXCEPT !.display_name = messageData.username])

\* socket.broadcast.to('main-chat').emit('new-message', messageData)
NewMessage(messageData) == Event("new-message", messageData)

\* row ids handed out from the top down
RowidCountingDown(tbl) == MaxChatSteps - Len(tbl)

\* result.lastInsertRowid of the INSERT: id INTEGER PRIMARY KEY AUTOINCREMENT
lastInsertRowid(tbl) == Len(tbl) + 1

\* socket.on('chat-message')
ChatMessage(s, data) ==
    /\ sockets[s].status = "open"
    /\ chatSteps < MaxChatSteps
    /\ chatSteps' = chatSteps + 1
    /\ UNCHANGED <<now, advances, users, sessionStore, response, requests,
                   loginVars, resetVars, ledgerDown, profiles, mainChat>>
    /\ sockets' = IF Dropped(data)
                  THEN [sockets EXCEPT ![s].dropped = @ + 1]
                  ELSE sockets
    /\ IF Dropped(data) \/ FindUserById(data.userId) = {}
       THEN UNCHANGED <<chat_messages, inbox>>
       ELSE LET user == profiles[data.userId]
                rowid == lastInsertRowid(chat_messages)
                messageData == MessageData(rowid, data, user)
            IN  /\ chat_messages' =
                       Append(chat_messages, ChatRow(rowid, data))
                /\ inbox' = EmitTo(
                       EmitTo(inbox, OthersIn(mainChat, s),
                              NewMessage(messageData)),
                       {s}, MessageSent(messageData))

\* chat-message with no data at all
NoData == NULL

\* the identity the connections that meet errors join with
FaultIdentities == {userData \in ChatIdentities : userData.id = 1}

\* the payloads of the connections that meet errors
FaultPayloads == {[message |-> "hi", userId |-> 1]}

\* the statement of the chat-message handler that throws: the destructuring
\* of the payload, the SELECT of the user, the INSERT of the message
ChatFaults == {"payload", "lookup", "insert"}

\* the statement is reached with this payload, and can throw
Throws(data, fault) ==
    IF fault = "payload" THEN data = NoData
    ELSE /\ data # NoData
         /\ ~Dropped(data)
         /\ fault = "insert" => FindUserById(data.userId) # {}

\* a try block that starts after the payload is taken apart
TryAfterPayload(fault) == fault # "payload"

\* try { ... } catch (error) { console.error(...) }: the statements the try
\* block holds
InsideTry(fault) == fault \in ChatFaults

\* socket.on('chat-message'), when a statement throws
ChatMessageThrows(s, data, fault) ==
    /\ sockets[s].status = "open"
    /\ chatSteps < MaxChatSteps
    /\ Throws(data, fault)
    /\ chatSteps' = chatSteps + 1
    /\ IF InsideTry(fault)
       THEN /\ sockets' = [sockets EXCEPT
                              ![s].caught = @ + 1,
                              ![s].caughtAt = Len(chat_messages)]
            /\ UNCHANGED mainChat
       ELSE \* an uncaught exception ends the process and every connection
            /\ sockets' = [o \in Sockets |->
                              IF sockets[o].status = "open"
                              THEN [sockets[o] EXCEPT !.status = "closed"]
                              ELSE sockets[o]]
            /\ mainChat' = {}
    /\ UNCHANGED <<now, advances, users, sessionStore, response, requests,
                   loginVars, resetVars, ledgerDown, profiles, chat_messages,
                   inbox>>

\* a disconnect that tells nobody
LeaveAnnouncedToNobody(room, s) == {}

\* the sockets user-left is emitted to: socket.to('main-chat'), after the
\* socket has left its rooms
LeaveRecipients(room, s) == OthersIn(room, s)

\* what every socket has received once the disconnect handler of s has run
AfterLeave(s, room) ==
    IF sockets[s].userData # NULL
    THEN EmitTo(inbox, LeaveRecipients(room, s),
                Event("user-left", Presence(sockets[s].userData)))
    ELSE inbox

\* a socket for which every close is the first one
AlwaysConnected(socket) == TRUE

\* Socket.IO fires 'disconnect' on a socket that is still connected, and
\* marks it disconnected before the handler runs
Connected(socket) == socket.status = "open"

\* socket.on('disconnect')
Disconnect(s) ==
    /\ sockets[s].status = "open"
    /\ Connected(sockets[s])
    /\ sockets' = [sockets EXCEPT ![s].status = "closed"]
    /\ mainChat' = mainChat \ {s}
    /\ inbox' = AfterLeave(s, mainChat')
    /\ UNCHANGED <<now, advances, users, sessionStore, response, requests,
                   loginVars, resetVars, ledgerDown, profiles, chat_messages,
                   chatSteps>>

\* a second close notification for a socket that has disconnected: the
\* handler of 'disconnect' is not run again
DisconnectAgain(s) ==
    /\ sockets[s].status = "closed"
    /\ chatSteps < MaxChatSteps
    /\ chatSteps' = chatSteps + 1
    /\ sockets' = [sockets EXCEPT ![s].closes = @ + 1]
    /\ inbox' = IF Connected(sockets[s])
                THEN AfterLeave(s, mainChat)
                ELSE inbox
    /\ UNCHANGED <<now, advances, users, sessionStore, response, requests,
                   loginVars, resetVars, ledgerDown, profiles, mainChat,
                   chat_messages>>

\* displayName.trim() of the names sent
Trim(displayName) == displayName

\* POST /update-display-name of the user the session belongs to
UpdateDisplayName(userId, displayName) ==
    /\ chatSteps < MaxChatSteps
    /\ chatSteps' = chatSteps + 1
    /\ profiles' = IF displayName = "" \/ Trim(displayName) = ""
                   THEN profiles
                   ELSE [profiles EXCEPT ![userId].display_name =
                            Trim(displayName)]
    /\ UNCHANGED <<now, advances, users, sessionStore, response, requests,
                   loginVars, resetVars, ledgerDown, sockets, mainChat,
                   chat_messages, inbox>>

\* the avatars a profile may carry (two of the listed ones, and the empty
\* string that stands for the default)
AllowedAvatars == {"fox", "robot", ""}

\* an avatar that is not in the list
NotAnAvatar == "skull"

\* avatar of POST /update-avatar
AvatarChoices == {"", "fox", NotAnAvatar}

\* a fan-out that spares the sockets of the user who changed the avatar
AvatarToOtherUsers(room, userId) ==
    {o \in room : sockets[o].userData.id # userId}

\* the sockets avatar-updated is emitted to: req.io.to('main-chat')
AvatarRecipients(room, userId) == room

\* POST /update-avatar of the user the session belongs to
UpdateAvatar(userId, avatar) ==
    /\ chatSteps < MaxChatSteps
    /\ chatSteps' = chatSteps + 1
    /\ IF avatar # "" /\ avatar \notin AllowedAvatars
       THEN UNCHANGED <<profiles, inbox>>
       ELSE LET avatarValue == IF avatar # "" THEN [emoji |-> avatar] ELSE NULL
                updatedUser == [profiles[userId] EXCEPT
                                   !.profile_avatar = avatarValue]
            IN  /\ profiles' = [profiles EXCEPT ![userId] = updatedUser]
                /\ inbox' = EmitTo(inbox, AvatarRecipients(mainChat, userId),
                       Event("avatar-updated",
                             [userId |-> userId,
                              username |-> updatedUser.username,
                              displayName |-> updatedUser.display_name,
                              newAvatar |-> IF avatarValue # NULL
                                            THEN avatarValue.emoji
                                            ELSE "default avatar"]))
    /\ UNCHANGED <<now, advances, users, sessionStore, response, requests,
                   loginVars, resetVars, ledgerDown, sockets, mainChat,
                   chat_messages>>

NextChat ==
    \/ \E s \in Sockets : Connect(s)
    \/ \E s \in Sockets, userData \in ChatIdentities : JoinChat(s, userData)
    \/ \E s \in Sockets, data \in ChatPayloads : ChatMessage(s, data)
    \/ \E s \in Sockets : Disconnect(s)
    \/ \E displayName \in DisplayNames : UpdateDisplayName(1, displayName)

SpecChat == Init /\ [][NextChat]_vars

\* connections that come, join and go, with repeated close notifications
NextLeave ==
    \/ \E s \in Sockets : Connect(s)
    \/ \E s \in Sockets, userData \in ChatIdentities : JoinChat(s, userData)
    \/ \E s \in Sockets : Disconnect(s)
    \/ \E s \in Sockets : DisconnectAgain(s)

SpecLeave == Init /\ [][NextLeave]_vars

\* the room while statements of the chat-message handler throw
NextChatFault ==
    \/ \E s \in Sockets : Connect(s)
    \/ \E s \in Sockets, userData \in FaultIdentities : JoinChat(s, userData)
    \/ \E s \in Sockets, data \in FaultPayloads : ChatMessage(s, data)
    \/ \E s \in Sockets, data \in FaultPayloads \cup {NoData},
          fault \in ChatFaults : ChatMessageThrows(s, data, fault)
    \/ \E s \in Sockets : Disconnect(s)

SpecChatFault == Init /\ [][NextChatFault]_vars

\* the room while users change their avatars
NextAvatar ==
    \/ \E s \in Sockets : Connect(s)
    \/ \E s \in Sockets, userData \in ChatIdentities : JoinChat(s, userData)
    \/ \E avatar \in AvatarChoices : UpdateAvatar(1, avatar)
    \/ \E s \in Sockets : Disconnect(s)

SpecAvatar == Init /\ [][NextAvatar]_vars

(***************************************************************************)
(* Properties of the login state machine.                                  *)
(***************************************************************************)
\* the user is LOCKED and the lockout has not run out
LockedNow(id) ==
    /\ users[id].is_locked
    /\ users[id].lockout_until # NULL
    /\ now < DateParse(users[id].lockout_until)

\* the user is LOCKED and the lockout has run out
LockedButExpired(id) ==
    /\ users[id].is_locked
    /\ users[id].lockout_until # NULL
    /\ now >= DateParse(users[id].lockout_until)

\* C1: from an ACTIVE user with a zero counter, wrong-password attempts made
\* one after the other (streak counts them; an overlapping attempt or a
\* success breaks the streak) leave the user ACTIVE with the counter at 1, 2,
\* 3, 4 after each of the first four, and LOCKED after the fifth with
\* lockoutUntil 15 minutes after the time the fifth credential check failed.
C1_FiveFailuresLock ==
    \A id \in UserIds :
        /\ streak[id].run \in 1..(LockThreshold - 1) =>
               /\ ~users[id].is_locked
               /\ users[id].lockout_until = NULL
               /\ users[id].failed_login_attempts = streak[id].run
        /\ streak[id].run >= LockThreshold =>
               /\ streak[id].run = LockThreshold
               /\ users[id].is_locked
               /\ users[id].lockout_until # NULL
               /\ DateParse(users[id].lockout_until) =
                      streak[id].at + LockoutMinutes * TicksPerMinute

C1_Witness ==
    \E id \in UserIds :
        /\ streak[id].run = LockThreshold
        /\ users[id].is_locked
        /\ users[id].failed_login_attempts = LockThreshold

\* C2: a login attempt submitted while the user is LOCKED and now is before
\* lockoutUntil is rejected as account-locked on the spot, with the correct
\* password too: no session is established and the users table (counter,
\* isLocked, lockoutUntil) is unchanged.
C2_LockedAttemptRejected ==
    [][\A c \in Clients, body \in LoginBodies :
          \A id \in FindByUsername(body[1]) :
              (LockedNow(id) /\ LoginStart(c, body[1], body[2])) =>
                  /\ response'.kind = "AccountLocked"
                  /\ response'.to = c
                  /\ login'[c].pc = "idle"
                  /\ sessionStore' = sessionStore
                  /\ users' = users]_vars

C2_Witness ==
    /\ response.kind = "AccountLocked"
    /\ \E id \in FindByUsername(response.request.username) :
           /\ LockedNow(id)
           /\ users[id].password_hash =
                  hashPassword(response.request.password)
           /\ users[id].failed_login_attempts = LockThreshold
           /\ sessionStore[response.to] = NULL

\* what C3 says of an attempt that found an expired lockout: on entry the
\* lock is cleared and the counter zeroed; on completion the password alone
\* decides.  `isolated` is the condition under which a wrong password is
\* said to leave the counter at 1 and the user ACTIVE.
ExpiredLockAttempt(isolated(_)) ==
    /\ \A c \in Clients, body \in LoginBodies :
           \A id \in FindByUsername(body[1]) :
               (LockedButExpired(id) /\ LoginStart(c, body[1], body[2])) =>
                   /\ ~users'[id].is_locked
                   /\ users'[id].lockout_until = NULL
                   /\ users'[id].failed_login_attempts = 0
                   /\ login'[c].pc = "compare"
    /\ \A c \in Clients :
           (/\ login[c].pc = "compare"
            /\ login[c].entry = "expired"
            /\ LoginResume(c)) =>
               LET id == login[c].id
               IN  IF login[c].correct
                   THEN /\ response'.kind = "LoginSuccess"
                        /\ sessionStore'[c] # NULL
                        /\ sessionStore'[c].userId = id
                        /\ users'[id].failed_login_attempts = 0
                   ELSE /\ response'.kind = "InvalidCredentials"
                        /\ sessionStore' = sessionStore
                        /\ isolated(c) =>
                               /\ users'[id].failed_login_attempts = 1
                               /\ ~users'[id].is_locked

Always(c) == TRUE
Alone(c) == login[c].alone

\* C3, as stated: a wrong password after an expired lockout always leaves
\* the counter at 1 and the user ACTIVE.
C3_Original == [][ExpiredLockAttempt(Always)]_vars

\* C3, amended: an attempt submitted for a LOCKED user with now >=
\* lockoutUntil clears the lock and zeroes the counter on entry; with the
\* correct password it establishes a session and the counter reads 0; with a
\* wrong password it is rejected, and the counter reads 1 with the user
\* ACTIVE provided no other attempt for that user was in flight meanwhile.
C3_ExpiredLockClearedThenPasswordDecides ==
    [][ExpiredLockAttempt(Alone)]_vars

C3_Witness ==
    /\ response.kind = "InvalidCredentials"
    /\ "attempt" \in DOMAIN response
    /\ response.attempt.entry = "expired"
    /\ response.attempt.alone
    /\ users[response.attempt.id].failed_login_attempts = 1
    /\ ~users[response.attempt.id].is_locked

\* C4: a login attempt with the correct password for a user it found ACTIVE
\* zeroes the counter, clears isLocked and lockoutUntil and binds the
\* client's session to that user's id, whatever the counter was.
C4_CorrectPasswordResets ==
    [][\A c \in Clients :
          (/\ login[c].pc = "compare"
           /\ login[c].entry = "active"
           /\ login[c].correct
           /\ LoginResume(c)) =>
              LET id == login[c].id
              IN  /\ response'.kind = "LoginSuccess"
                  /\ users'[id].failed_login_attempts = 0
                  /\ ~users'[id].is_locked
                  /\ users'[id].lockout_until = NULL
                  /\ sessionStore'[c] # NULL
                  /\ sessionStore'[c].userId = id]_vars

C4_Witness ==
    /\ response.kind = "LoginSuccess"
    /\ response.attempt.entry = "active"
    /\ response.attempt.before = LockThreshold - 1
    /\ users[response.attempt.id].failed_login_attempts = 0
    /\ ~users[response.attempt.id].is_locked
    /\ sessionStore[response.to].userId = response.attempt.id

(***************************************************************************)
(* Properties of the password reset flow.                                  *)
(***************************************************************************)
\* a stored token whose expiry time has not come
ValidRow(r) == now < DateParse(r.expires_at)

\* the token is stored and its expiry time has not come
ValidNow(token) ==
    \E r \in password_reset_tokens : r.token = token /\ ValidRow(r)

\* C5: every user has at most one valid (stored, unexpired) reset token.
C5_OneValidTokenPerUser ==
    \A id \in UserIds :
        Cardinality({r \in password_reset_tokens :
                        r.user_id = id /\ ValidRow(r)}) <= 1

\* C6: when consumeToken succeeds the owner's password is the new password
\* and the token is deleted; from then on validateToken does not find the
\* token valid, and a consumeToken submitted with it is turned down and
\* changes no password.
C6_ConsumedTokenIsGone ==
    /\ [](\A t \in Tokens :
             changes[t] >= 1 => validateToken(t) \in {"expired", "not-found"})
    /\ [][/\ \A c \in Clients :
                (reset[c].pc = "hashing" /\ ResetResume(c)) =>
                    /\ comparePassword(reset[c].password,
                           users'[reset[c].user_id].password_hash)
                    /\ FindToken(password_reset_tokens',
                                 reset[c].token) = {}
          /\ \A c \in Clients, t \in Tokens, body \in ResetPasswords :
                (changes[t] >= 1 /\ ResetStart(c, t, body[1], body[2])) =>
                    /\ response'.kind # "ResetSuccess"
                    /\ reset'[c].pc = "idle"
                    /\ users' = users]_vars

C6_Witness ==
    /\ response.route = "POST /reset-password"
    /\ response.kind = "TokenExpired"
    /\ response.token \in Tokens
    /\ changes[response.token] = 1
    /\ validateToken(response.token) = "not-found"
    /\ \E id \in UserIds : users[id].password_hash = hashPassword(PwNew)

\* C7: at most one consumeToken changes the password with a given token,
\* however the requests that carry it interleave.
C7_TokenChangesPasswordOnce ==
    \A t \in Tokens : changes[t] <= 1

\* C8: when consumeToken succeeds for a user, no session established for
\* that user by an earlier login is still accepted as logged in.
C8_ResetInvalidatesSessions ==
    [][\A c \in Clients :
          (reset[c].pc = "hashing" /\ ResetResume(c)) =>
              \A d \in Clients :
                  \/ sessionStore'[d] = NULL
                  \/ sessionStore'[d].userId # reset[c].user_id]_vars

\* C9: consumeToken with a new password that fails the password policy, or
\* whose confirmation differs, is answered with a validation error and
\* leaves the stored password, the token and the sessions unchanged.
ValidationErrors ==
    {"AllFieldsRequired", "PasswordsDoNotMatch", "PasswordTooShort"}

C9_WeakPasswordRejected ==
    [][\A c \in Clients, t \in KnownTokens, body \in ResetPasswords :
          (/\ validatePassword(body[1]) # {} \/ body[1] # body[2]
           /\ ResetStart(c, t, body[1], body[2])) =>
              /\ response'.kind \in ValidationErrors
              /\ reset'[c].pc = "idle"
              /\ UNCHANGED <<users, password_reset_tokens, sessions,
                             sessionStore>>]_vars

\* C10: consumeToken with a token that is expired (now >= expiresAt when it
\* is submitted) or that does not exist changes no password, deletes no
\* token and invalidates no session.
C10_InvalidTokenChangesNothing ==
    [][/\ \A c \in Clients, t \in KnownTokens, body \in ResetPasswords :
             (~ValidNow(t) /\ ResetStart(c, t, body[1], body[2])) =>
                 UNCHANGED <<users, password_reset_tokens, sessions,
                             sessionStore>>
       /\ \A c \in Clients :
             (/\ reset[c].pc = "hashing"
              /\ reset[c].overdue
              /\ ResetResume(c)) =>
                 UNCHANGED <<users, password_reset_tokens, sessions,
                             sessionStore>>]_vars

(***************************************************************************)
(* Properties of the login route: what a reply gives away, and the ledger. *)
(***************************************************************************)
\* C12: the reply to an attempt with an unknown username (status and
\* Location of the redirect) is the same as the reply to an attempt with a
\* known username of an ACTIVE account and a wrong password, whenever one
\* follows the other; the unknown-username attempt is logged with reason
\* user_not_found and changes no row of users.
C12_UnknownUserIndistinguishable ==
    [][/\ \A c \in Clients, body \in LedgerBodies :
             (/\ body[1] # ""
              /\ body[2] # PwEmpty
              /\ FindByUsername(body[1]) = {}
              /\ ~ledgerDown
              /\ LoginStartWithin(MaxLogins, c, body[1], body[2])) =>
                 /\ response'.kind = "UserNotFound"
                 /\ login'[c].pc = "idle"
                 /\ users' = users
                 /\ sessionStore' = sessionStore
                 /\ login_attempts'.count = login_attempts.count + 1
                 /\ login_attempts'.last.username = body[1]
                 /\ login_attempts'.last.failure_reason = "user_not_found"
       /\ (/\ {response.kind, response'.kind} =
                  {"UserNotFound", "InvalidCredentials"}
           /\ response' # response) =>
              response'.redirect = response.redirect]_vars

C12_Witness ==
    /\ response.kind = "UserNotFound"
    /\ response.redirect = WrongPasswordRedirect
    /\ login_attempts.last # NULL
    /\ login_attempts.last.failure_reason = "user_not_found"
    /\ \E id \in UserIds : users[id].failed_login_attempts = 1

\* C13: every login attempt appends exactly one row to login_attempts (while
\* the table takes INSERTs): none while the attempt is suspended, one when it
\* ends, whether by a redirect on entry, by the outcome of the credential
\* check or by an internal error.
C13_OneLedgerEntryPerAttempt ==
    [][~ledgerDown =>
          /\ \A c \in Clients, body \in LedgerBodies :
                 LoginStartWithin(MaxLogins, c, body[1], body[2]) =>
                     login_attempts'.count = login_attempts.count +
                         (IF login'[c].pc = "compare" THEN 0 ELSE 1)
          /\ \A c \in Clients :
                 (login[c].pc = "compare" /\ login'[c].pc = "idle") =>
                     login_attempts'.count = login_attempts.count + 1]_vars

\* C14: when the INSERT into login_attempts fails, a login attempt ends as
\* its credentials decide, exactly as with a working ledger: the same
\* redirect, the same users row (counter and lock fields) and the same
\* session.
C14_LedgerFailureChangesNoOutcome ==
    [][ledgerDown =>
          /\ \A c \in Clients, body \in LedgerBodies :
                 LoginStartWithin(MaxLogins, c, body[1], body[2]) =>
                     IF body[1] = "" \/ body[2] = PwEmpty
                     THEN /\ response'.kind = "MissingCredentials"
                          /\ response'.redirect = MissingCredentialsRedirect
                          /\ users' = users /\ sessionStore' = sessionStore
                     ELSE IF FindByUsername(body[1]) = {}
                     THEN /\ response'.kind = "UserNotFound"
                          /\ response'.redirect = UserNotFoundRedirect
                          /\ users' = users /\ sessionStore' = sessionStore
                     ELSE \A id \in FindByUsername(body[1]) :
                              IF LockedNow(id)
                              THEN /\ response'.kind = "AccountLocked"
                                   /\ response'.redirect.status = 302
                                   /\ users' = users
                                   /\ sessionStore' = sessionStore
                              ELSE /\ login'[c].pc = "compare"
                                   /\ response' = response
                                   /\ sessionStore' = sessionStore
          /\ \A c \in Clients :
                 (login[c].pc = "compare" /\ LoginResume(c)) =>
                     LET id == login[c].id
                         count == users[id].failed_login_attempts
                     IN  IF comparePassword(login[c].password,
                                            login[c].password_hash)
                         THEN /\ response'.kind = "LoginSuccess"
                              /\ response'.redirect.path =
                                     "/public/login-success.html"
                              /\ sessionStore'[c] # NULL
                              /\ sessionStore'[c].userId = id
                              /\ users'[id].failed_login_attempts = 0
                              /\ ~users'[id].is_locked
                         ELSE /\ response'.kind = "InvalidCredentials"
                              /\ response'.redirect = WrongPasswordRedirect
                              /\ sessionStore' = sessionStore
                              /\ users'[id].failed_login_attempts = count + 1
                              /\ users'[id].is_locked =
                                     (users[id].is_locked
                                      \/ count + 1 >= LockThreshold)]_vars

C14_Witness ==
    /\ ledgerDown
    /\ login_attempts.count = 0
    /\ response.kind = "LoginSuccess"
    /\ sessionStore[response.to] # NULL
    /\ sessionStore[response.to].userId = response.attempt.id

(***************************************************************************)
(* Properties of the reset request and of the token lookup.                *)
(***************************************************************************)
\* C11: when the email is sent, POST /forgot-password answers an email that
\* belongs to a user with the same status and body as an email that belongs
\* to no user, whenever one reply follows the other.
C11_ResetRequestIndistinguishable ==
    [][(/\ {response.kind, response'.kind} = {"UnknownEmail", "EmailSent"}
        /\ response' # response) =>
           /\ response'.body = response.body
           /\ response'.body.status = 200]_vars

C11_Witness ==
    /\ response.kind = "EmailSent"
    /\ response.body = GenericSuccess
    /\ requests >= 2
    /\ \E r \in password_reset_tokens :
           r.token = response.token /\ EmailOf(r.user_id) = "alice@example.org"

\* C15: validateToken returns valid exactly when a row with the token is
\* stored and now < expiresAt, expired when a row is stored and now >=
\* expiresAt, and not-found when no row has the token.
C15_ValidateTokenByExpiry ==
    \A t \in KnownTokens :
        validateToken(t) =
            IF ValidNow(t) THEN "valid"
            ELSE IF FindToken(password_reset_tokens, t) # {} THEN "expired"
            ELSE "not-found"

\* C16: when sendPasswordResetEmail fails, the caller gets an error reply
\* that differs from the generic success; the step removes no token, and the
\* token the request stored is still stored unless a reset has consumed it.
C16_DispatchFailureKeepsToken ==
    [][\A c \in Clients :
          (forgot[c].pc = "sending" /\ ForgotResume(c, FALSE)) =>
              /\ response'.kind = "EmailError"
              /\ response'.body # GenericSuccess
              /\ response'.body # EmailSentSuccess
              /\ ~response'.body.success
              /\ password_reset_tokens' = password_reset_tokens
              /\ changes[forgot[c].token] = 0 =>
                     FindToken(password_reset_tokens',
                               forgot[c].token) # {}]_vars

C16_Witness ==
    /\ response.kind = "EmailError"
    /\ response.body.status = 500
    /\ ValidNow(response.token)
    /\ validateToken(response.token) = "valid"

(***************************************************************************)
(* Properties of the chat room.                                            *)
(***************************************************************************)
\* the events a step delivered to socket s
Delivered(s) == SubSeq(inbox'[s], Len(inbox[s]) + 1, Len(inbox'[s]))

\* the step is the chat-message handler storing a message sent on socket s
Accepts(s) ==
    /\ chat_messages' # chat_messages
    /\ \E data \in ChatPayloads : ChatMessage(s, data)

\* C17: when a chat message is accepted, its sender receives exactly one
\* message-sent event and no new-message event, and the payload of that
\* message-sent has the fields and the values of the new-message payload
\* delivered to the others.
C17_SenderGetsMessageSent ==
    [][\A s \in Sockets :
          Accepts(s) =>
              /\ Len(Delivered(s)) = 1
              /\ Delivered(s)[1].event = "message-sent"
              /\ \A o \in mainChat \ {s} :
                     /\ Delivered(o) # <<>>
                     /\ Delivered(o)[1].event = "new-message"
                     /\ Delivered(o)[1].payload = Delivered(s)[1].payload]_vars

\* a sender that has received its confirmation and nothing else, while
\* another socket has received the same payload as a new-message
C17_Witness ==
    \E s \in Sockets : \E o \in Sockets \ {s} :
        /\ Len(inbox[s]) = 1
        /\ inbox[s][1].event = "message-sent"
        /\ inbox[o] # <<>>
        /\ inbox[o][Len(inbox[o])] = Event("new-message", inbox[s][1].payload)

\* C18: when a chat message is accepted, every member of the room other than
\* the sender receives exactly one new-message event, and its display_name is
\* the display name stored for the user whose id the message carries.
C18_OthersGetNewMessage ==
    [][\A s \in Sockets, data \in ChatPayloads :
          (chat_messages' # chat_messages /\ ChatMessage(s, data)) =>
              \A o \in mainChat \ {s} :
                  /\ Len(Delivered(o)) = 1
                  /\ Delivered(o)[1].event = "new-message"
                  /\ Delivered(o)[1].payload.display_name =
                         profiles[data.userId].display_name]_vars

\* two sockets have received the new-message of a user who had changed the
\* display name
C18_Witness ==
    \E o1 \in Sockets : \E o2 \in Sockets \ {o1} :
        /\ profiles[1].display_name = "Ally"
        /\ \A o \in {o1, o2} :
               /\ inbox[o] # <<>>
               /\ inbox[o][Len(inbox[o])].event = "new-message"
               /\ inbox[o][Len(inbox[o])].payload.display_name = "Ally"

\* C19: a chat-message whose text or whose userId is empty or missing is
\* dropped: no message is stored, no socket receives an event, and the
\* connection stays open.
C19_EmptyMessageDropped ==
    [][\A s \in Sockets, data \in ChatPayloads :
          ((data.message = "" \/ data.userId = NoUserId)
           /\ ChatMessage(s, data)) =>
              /\ chat_messages' = chat_messages
              /\ inbox' = inbox
              /\ mainChat' = mainChat
              /\ sockets'[s].status = "open"]_vars

\* a member of the room whose message was dropped: nothing is stored, the
\* other member has received the join and nothing since
C19_Witness ==
    \E s \in mainChat : \E o \in mainChat \ {s} :
        /\ sockets[s].dropped > 0
        /\ sockets[s].status = "open"
        /\ chat_messages = <<>>
        /\ Len(inbox[o]) = 1
        /\ inbox[o][1].event = "user-joined"
        /\ inbox[s] = <<>>

\* C20: join-chat puts the socket in the room and delivers user-joined to
\* every other socket of the room, and nothing to the joining socket.
C20_JoinAnnouncedToOthers ==
    [][\A s \in Sockets, userData \in ChatIdentities :
          JoinChat(s, userData) =>
              /\ s \in mainChat'
              /\ mainChat \subseteq mainChat'
              /\ Delivered(s) = <<>>
              /\ \A o \in mainChat \ {s} :
                     /\ Len(Delivered(o)) = 1
                     /\ Delivered(o)[1].event = "user-joined"
                     /\ Delivered(o)[1].payload.username =
                            OrElse(userData.displayName, userData.username)
              /\ \A o \in Sockets \ mainChat' : Delivered(o) = <<>>]_vars

\* a socket that joined a room of two and has received nothing, while both
\* have received its user-joined
C20_Witness ==
    \E s \in mainChat :
        /\ inbox[s] = <<>>
        /\ Cardinality(mainChat) = 3
        /\ \A o \in mainChat \ {s} :
               /\ inbox[o] # <<>>
               /\ inbox[o][Len(inbox[o])].event = "user-joined"

\* C21: when a socket that had joined disconnects, every socket that remains
\* in the room receives one user-left event carrying the identity the socket
\* last joined with, and nobody else receives anything; when a socket that
\* never joined disconnects, no event is emitted at all.
C21_LeaveAnnouncedIfJoined ==
    [][\A s \in Sockets :
          Disconnect(s) =>
              /\ s \notin mainChat'
              /\ IF s \in mainChat
                 THEN /\ \A o \in mainChat \ {s} :
                            Delivered(o) =
                                <<Event("user-left",
                                        [username |->
                                             OrElse(sockets[s].userData.displayName,
                                                    sockets[s].userData.username),
                                         timestamp |-> ToISOString(now)])>>
                      /\ \A o \in Sockets \ (mainChat \ {s}) :
                             Delivered(o) = <<>>
                 ELSE inbox' = inbox]_vars

\* a socket that joined with a display name has closed, and both remaining
\* members of the room have its user-left as their latest event
C21_Witness ==
    \E s \in Sockets :
        /\ sockets[s].status = "closed"
        /\ sockets[s].userData # NULL
        /\ Cardinality(mainChat) = 2
        /\ \A o \in mainChat :
               /\ inbox[o] # <<>>
               /\ inbox[o][Len(inbox[o])].event = "user-left"
               /\ inbox[o][Len(inbox[o])].payload.username =
                      OrElse(sockets[s].userData.displayName,
                             sockets[s].userData.username)

\* the user-left events among those socket o has received
UserLeftCount(o) ==
    Cardinality({i \in 1..Len(inbox[o]) : inbox[o][i].event = "user-left"})

C23_AvatarUpdatedToWholeRoom ==
    [][\A userId \in UserIds, avatar \in AvatarChoices \ {NotAnAvatar} :
          UpdateAvatar(userId, avatar) =>
              /\ \A o \in mainChat :
                     /\ Len(Delivered(o)) = 1
                     /\ Delivered(o)[1].event = "avatar-updated"
                     /\ Delivered(o)[1].payload.userId = userId
                     /\ Delivered(o)[1].payload.newAvatar =
                            IF avatar = "" THEN "default avatar" ELSE avatar
              /\ \A o \in Sockets \ mainChat : Delivered(o) = <<>>]_vars

\* a socket of the user who changed the avatar and a socket of another user
\* have both received the avatar-updated event
C23_Witness ==
    \E o1 \in mainChat : \E o2 \in mainChat :
        /\ sockets[o1].userData.id = 1
        /\ sockets[o2].userData.id = 2
        /\ profiles[1].profile_avatar = [emoji |-> "fox"]
        /\ \A o \in {o1, o2} :
               inbox[o][Len(inbox[o])] =
                   Event("avatar-updated",
                         [userId |-> 1, username |-> "alice",
                          displayName |-> "Alice A.", newAvatar |-> "fox"])

\* the positions of the new-message and message-sent events socket o has
\* received
MessageEvents(o) ==
    {i \in 1..Len(inbox[o]) :
        inbox[o][i].event \in {"new-message", "message-sent"}}

\* C24: messages are emitted in the order in which they were sent: every
\* socket receives the message events, its own confirmations and the
\* messages of each other connection, in the order of the row ids the
\* messages were stored under, whatever was delivered in between.
C24_MessagesInSendOrder ==
    \A o \in Sockets : \A i \in MessageEvents(o), j \in MessageEvents(o) :
        i < j => inbox[o][i].payload.id < inbox[o][j].payload.id

\* one socket has two confirmations, in order, and another has received the
\* two messages in the same order with a join of a third in between
C24_Witness ==
    \E s \in Sockets : \E o \in Sockets \ {s} :
        /\ Len(inbox[s]) = 2
        /\ inbox[s][1].event = "message-sent"
        /\ inbox[s][2].event = "message-sent"
        /\ Len(inbox[o]) = 3
        /\ inbox[o][1] = Event("new-message", inbox[s][1].payload)
        /\ inbox[o][2].event = "user-joined"
        /\ inbox[o][3] = Event("new-message", inbox[s][2].payload)
        /\ inbox[s][1].payload.id < inbox[s][2].payload.id

\* the stored rows that have the id of a payload
RowsOf(payload) ==
    {k \in 1..Len(chat_messages) : chat_messages[k].id = payload.id}

\* C25: every new-message and every message-sent event a socket has
\* received carries the id, the text and the user id of exactly one stored
\* chat message; there is no such event without its row.
C25_PayloadIsStoredRow ==
    \A o \in Sockets : \A i \in MessageEvents(o) :
        LET payload == inbox[o][i].payload
        IN  /\ Cardinality(RowsOf(payload)) = 1
            /\ \A k \in RowsOf(payload) :
                   /\ chat_messages[k].message = payload.message
                   /\ chat_messages[k].user_id = payload.user_id

\* two messages are stored, and a socket has received the second as a
\* new-message and another its confirmation
C25_Witness ==
    /\ Len(chat_messages) = 2
    /\ \E o \in Sockets : \E s \in Sockets \ {o} :
           /\ inbox[o] # <<>>
           /\ inbox[s] # <<>>
           /\ inbox[o][Len(inbox[o])].event = "new-message"
           /\ inbox[o][Len(inbox[o])].payload.id = 2
           /\ inbox[s][Len(inbox[s])].event = "message-sent"
           /\ inbox[s][Len(inbox[s])].payload.id = 2
           /\ chat_messages[2].message = "hi"

(***************************************************************************)
(* Further properties of the login state machine.                          *)
(***************************************************************************)
\* C26: a locked user always has a lockout_until, and whenever a lock is set
\* or renewed its lockout_until lies in the future.
C26_LockedHasFutureLockout ==
    /\ [](\A id \in UserIds :
             users[id].is_locked => users[id].lockout_until # NULL)
    /\ [][\A id \in UserIds :
             (/\ users'[id].is_locked
              /\ \/ ~users[id].is_locked
                 \/ users'[id].lockout_until # users[id].lockout_until) =>
                 /\ users'[id].lockout_until # NULL
                 /\ DateParse(users'[id].lockout_until) > now']_vars

\* a user whose lock was set at the present time and ends in fifteen minutes
C26_Witness ==
    \E id \in UserIds :
        /\ users[id].is_locked
        /\ users[id].lockout_until = ToISOString(now + LockoutTicks)
        /\ response.kind = "InvalidCredentials"

\* C27: a login that was suspended in the password comparison checks the
\* lock again when it resumes: no login succeeds for a user whose lock is
\* in force at that moment.
C27_ResumedLoginRechecksLock ==
    [][\A c \in Clients :
          (/\ login[c].pc = "compare"
           /\ login'[c].pc = "idle"
           /\ response'.kind = "LoginSuccess"
           /\ response'.to = c) =>
              ~LockInForce(users[login[c].id], now)]_vars

\* the response sent last ends a failed credential check that overlapped
\* another request for the same user, the second or a later one of the
\* failed checks made since the counter was last cleared
OverlappingFailures ==
    /\ response.kind = "InvalidCredentials"
    /\ ~response.attempt.alone
    /\ streak[response.attempt.id].failed >= 2

\* C28 as stated: failed attempts that overlap under-count, the counter ends
\* below their number.
C28_Original ==
    OverlappingFailures =>
        users[response.attempt.id].failed_login_attempts <
            streak[response.attempt.id].failed

\* C28, amended: failed attempts are never under-counted: after N failed
\* credential checks for a user with no successful login and no unlock in
\* between, overlapping or not, the counter is exactly N.
C28_FailedChecksAllCounted ==
    \A id \in UserIds :
        users[id].failed_login_attempts = streak[id].failed

\* two failed checks that overlapped have both completed, and the counter
\* is two
C28_Witness ==
    /\ OverlappingFailures
    /\ streak[response.attempt.id].failed = 2
    /\ users[response.attempt.id].failed_login_attempts = 2
    /\ response.attempt.before = 1

\* C30: the minutes reported when a locked attempt is rejected are the time
\* left until lockout_until rounded up to whole minutes, and they are at
\* least 1 and at most 15; the redirect carries that number.
C30_RemainingMinutesRoundedUp ==
    [][\A c \in Clients, body \in LoginBodies :
          \A id \in FindByUsername(body[1]) :
              (LockInForce(users[id], now)
               /\ LoginStart(c, body[1], body[2])) =>
                  LET left == DateParse(users[id].lockout_until) - now
                      m == response'.remainingMinutes
                  IN  /\ response'.kind = "AccountLocked"
                      /\ m \in 1..LockoutMinutes
                      /\ (m - 1) * TicksPerMinute < left
                      /\ left <= m * TicksPerMinute
                      /\ response'.redirect = AccountLockedRedirect(m)]_vars

\* a rejection that reports 15 minutes when less than 15 whole minutes are
\* left
C30_Witness ==
    /\ response.kind = "AccountLocked"
    /\ response.remainingMinutes = LockoutMinutes
    /\ \E id \in FindByUsername(response.request.username) :
           /\ LockInForce(users[id], now)
           /\ DateParse(users[id].lockout_until) - now = LockoutTicks - 1

\* C29: an error thrown while a chat-message is handled, by the payload, by
\* the user lookup or by the INSERT, is caught: no message is stored, no
\* socket receives an event, the socket stays open and in the room, and a
\* message the same socket sends later is stored and confirmed.
C29_ChatErrorCaught ==
    /\ [][\A s \in Sockets, data \in FaultPayloads \cup {NoData},
            fault \in ChatFaults :
             ChatMessageThrows(s, data, fault) =>
                 /\ inbox' = inbox
                 /\ chat_messages' = chat_messages
                 /\ mainChat' = mainChat
                 /\ sockets'[s].status = "open"]_vars
    /\ [][\A s \in Sockets, data \in FaultPayloads :
             (sockets[s].caught > 0 /\ ChatMessage(s, data)) =>
                 /\ Len(chat_messages') = Len(chat_messages) + 1
                 /\ Len(Delivered(s)) = 1
                 /\ Delivered(s)[1].event = "message-sent"]_vars

\* a socket in the room met an error when no message was stored yet, and
\* has since sent the first message: it has the confirmation and another
\* member the message
C29_Witness ==
    \E s \in mainChat : \E o \in mainChat \ {s} :
        /\ sockets[s].caught > 0
        /\ sockets[s].caughtAt = 0
        /\ sockets[s].status = "open"
        /\ Len(chat_messages) = 1
        /\ inbox[s][Len(inbox[s])].event = "message-sent"
        /\ inbox[o][Len(inbox[o])].event = "new-message"

\* C31: in every reachable state, whatever the interleaving of the login
\* attempts for a user, failedLoginAttempts is between 0 and 5.
C31_CounterWithinThreshold ==
    \A id \in UserIds :
        users[id].failed_login_attempts \in 0..LockThreshold

\* C32: a user has failedLoginAttempts >= 5 exactly when isLocked is true,
\* in every state between two steps of the login handlers, suspended
\* attempts or not.
C32_ThresholdIffLocked ==
    \A id \in UserIds :
        (users[id].failed_login_attempts >= LockThreshold)
            <=> users[id].is_locked

\* a user is locked with the counter at the threshold while an attempt for
\* that user is suspended
C32_Witness ==
    \E id \in UserIds : \E c \in Clients :
        /\ users[id].is_locked
        /\ users[id].failed_login_attempts = LockThreshold
        /\ login[c].pc = "compare"
        /\ login[c].id = id

\* C33: while a lock is in force no step moves its lockout_until later: a
\* login attempt that completes before the lock ends does not extend it.
C33_LockoutNotExtended ==
    [][\A id \in UserIds :
          (/\ LockInForce(users[id], now)
           /\ users'[id].is_locked
           /\ users'[id].lockout_until # NULL) =>
              DateParse(users'[id].lockout_until) <=
                  DateParse(users[id].lockout_until)]_vars

\* C34: a session is bound to a user only by the completion of a login
\* attempt of that client for that user which supplied the user's password
\* and which, when it started, found the user not locked or the lockout
\* expired; an attempt that starts while the lock is in force goes no
\* further.
C34_SessionOnlyByLogin ==
    /\ [][\A c \in Clients :
             (sessionStore'[c] # sessionStore[c] /\ sessionStore'[c] # NULL) =>
                 /\ login[c].pc = "compare"
                 /\ login'[c].pc = "idle"
                 /\ login[c].id = sessionStore'[c].userId
                 /\ login[c].correct
                 /\ login[c].entry \in {"active", "expired"}]_vars
    /\ [][\A c \in Clients :
             (login[c].pc = "idle" /\ login'[c].pc = "compare") =>
                 /\ ~LockInForce(users[login'[c].id], now)
                 /\ login'[c].entry = "expired" <=>
                        LockExpired(users[login'[c].id], now)]_vars

\* a session established by an attempt that found the lockout expired
C34_Witness ==
    /\ response.kind = "LoginSuccess"
    /\ response.attempt.entry = "expired"
    /\ response.attempt.correct
    /\ sessionStore[response.to] # NULL
    /\ sessionStore[response.to].userId = response.attempt.id

(***************************************************************************)
(* Further properties of the chat room.                                    *)
(***************************************************************************)
\* C35: a chat-message from a socket that never joined stores no message and
\* delivers nothing to the members of the room.
C35_OnlyJoinedCanSend ==
    [][\A s \in Sockets, data \in ChatPayloads :
          (/\ s \notin mainChat
           /\ sockets[s].userData = NULL
           /\ ChatMessage(s, data)) =>
              /\ chat_messages' = chat_messages
              /\ \A o \in mainChat : Delivered(o) = <<>>]_vars

\* C36: the user_id of a stored message and of its payload is the user id
\* the sending socket gave when it joined.
C36_MessageAttributedToSender ==
    [][\A s \in Sockets, data \in ChatPayloads :
          (/\ sockets[s].userData # NULL
           /\ chat_messages' # chat_messages
           /\ ChatMessage(s, data)) =>
              /\ chat_messages'[Len(chat_messages')].user_id =
                     sockets[s].userData.id
              /\ Delivered(s)[1].payload.user_id =
                     sockets[s].userData.id]_vars

\* C38: user-joined is emitted at most once for a socket: a join-chat from
\* a socket that is in the room already delivers nothing.
C38_UserJoinedOnce ==
    [][\A s \in Sockets, userData \in ChatIdentities :
          (s \in mainChat /\ JoinChat(s, userData)) =>
              \A o \in Sockets : Delivered(o) = <<>>]_vars

(***************************************************************************)
(* The frame of a password reset.                                          *)
(***************************************************************************)
\* C39: a reset that succeeds changes the password hash of the token's
\* owner and nothing else in the users table: the owner's counter, lock and
\* lockout_until are as before, and so is every other user's row.
C39_ResetChangesPasswordOnly ==
    [][\A c \in Clients :
          (/\ reset[c].pc = "hashing"
           /\ reset'[c].pc = "idle"
           /\ response'.kind = "ResetSuccess") =>
              \A id \in UserIds :
                  IF id = reset[c].user_id
                  THEN /\ users'[id].password_hash =
                              hashPassword(reset[c].password)
                       /\ users'[id].failed_login_attempts =
                              users[id].failed_login_attempts
                       /\ users'[id].is_locked = users[id].is_locked
                       /\ users'[id].lockout_until = users[id].lockout_until
                  ELSE users'[id] = users[id]]_vars

\* a reset has succeeded for a user who is locked with the counter at the
\* threshold, and the password is the new one
C39_Witness ==
    /\ response.kind = "ResetSuccess"
    /\ users[1].is_locked
    /\ users[1].failed_login_attempts = LockThreshold
    /\ users[1].password_hash = hashPassword(PwNew)
    /\ users[2].password_hash = hashPassword(PwBob)

\* the positions of the new-message events socket o has received
NewMessages(o) ==
    {i \in 1..Len(inbox[o]) : inbox[o][i].event = "new-message"}

\* C37: new-message events reach every socket in the order their rows were
\* inserted, whoever sent them: of two messages a socket has received, the
\* one with the smaller row id came first.
C37_NewMessagesInInsertionOrder ==
    \A o \in Sockets : \A i \in NewMessages(o), j \in NewMessages(o) :
        inbox[o][i].payload.id < inbox[o][j].payload.id => i < j

\* a socket has received the first stored message from one sender and then
\* the second from another
C37_Witness ==
    \E o \in Sockets : \E s1 \in Sockets \ {o} : \E s2 \in Sockets \ {o, s1} :
        /\ Len(chat_messages) = 2
        /\ NewMessages(o) # {}
        /\ Cardinality(NewMessages(o)) = 2
        /\ \E i \in NewMessages(o), j \in NewMessages(o) :
               /\ i < j
               /\ inbox[o][i].payload.id = 1
               /\ inbox[o][j].payload.id = 2
        /\ inbox[s1] # <<>>
        /\ inbox[s2] # <<>>
        /\ inbox[s1][Len(inbox[s1])].event = "message-sent"
        /\ inbox[s1][Len(inbox[s1])].payload.id = 1
        /\ inbox[s2][Len(inbox[s2])].event = "message-sent"
        /\ inbox[s2][Len(inbox[s2])].payload.id = 2

====
